---- MODULE Spec2Model ----
(***************************************************************************)
(* Model of entity/env/env.go: the Env type that tracks the selected       *)
(* package and service of a catalog, memoizes visited packages, keeps the  *)
(* request headers and derives the DSN string.                             *)
(*                                                                         *)
(* Go strings are modelled as sequences of one-character strings, so that  *)
(* strings.SplitN and the concatenation in DSN are computed, not assumed.  *)
(* An error is modelled by its cause (the sentinel that errors.Wrap        *)
(* wraps); a nil-pointer dereference is the outcome Panic.                 *)
(***************************************************************************)
EXTENDS Integers, Sequences, FiniteSets, TLC

VARIABLES pkgs, state, option, cache, ret, callers, reference

vars == <<pkgs, state, option, cache, ret, callers, reference>>

(* ---------------------------- bounds ----------------------------------- *)

\* longest name passed to an operation that takes a name
MaxNameLen == 3

\* number of goroutines that use the header store at the same time
NumCallers == 2

\* number of calls they make in all
MaxCalls == 3

\* characters names are built from
Alphabet == {"a", "."}

(* ---------------------------- strings ---------------------------------- *)

Empty == << >>
A == << "a" >>
AA == << "a", "a" >>
Dot == << "." >>
AdotA == << "a", ".", "a" >>
DotA == << ".", "a" >>
Default == << "d", "e", "f", "a", "u", "l", "t" >>

StringsOfLen(n) == [1..n -> Alphabet]

\* the names the operations are called with
Names == (UNION {StringsOfLen(n) : n \in 0..MaxNameLen}) \cup {Default}

\* byte value of a character, for the < of Go strings
Ord(c) ==
    CASE c = "." -> 46
      [] c = "a" -> 97
      [] c = "d" -> 100
      [] c = "e" -> 101
      [] c = "f" -> 102
      [] c = "l" -> 108
      [] c = "t" -> 116
      [] c = "u" -> 117

RECURSIVE StrLess(_, _)
StrLess(s, t) ==
    IF t = << >> THEN FALSE
    ELSE IF s = << >> THEN TRUE
    ELSE IF Ord(Head(s)) # Ord(Head(t)) THEN Ord(Head(s)) < Ord(Head(t))
    ELSE StrLess(Tail(s), Tail(t))

\* index of the first sep character of s, 0 if there is none
RECURSIVE IndexFrom(_, _, _)
IndexFrom(s, sep, i) ==
    IF i > Len(s) THEN 0
    ELSE IF s[i] = sep THEN i
    ELSE IndexFrom(s, sep, i + 1)

\* a split that always yields two parts, the second empty without a separator
SplitN2Padded(s, sep) ==
    LET i == IndexFrom(s, sep, 1)
    IN  IF i = 0 THEN << s, << >> >>
        ELSE << SubSeq(s, 1, i - 1), SubSeq(s, i + 1, Len(s)) >>

\* strings.SplitN(s, sep, 2) for a one-character sep
SplitN2(s, sep) ==
    LET i == IndexFrom(s, sep, 1)
    IN  IF i = 0 THEN << s >>
        ELSE << SubSeq(s, 1, i - 1), SubSeq(s, i + 1, Len(s)) >>

(* ---------------------------- errors ----------------------------------- *)

NoErr == "nil"
ErrPackageUnselected == "package unselected"
ErrServiceUnselected == "service unselected"
ErrUnknownPackage == "unknown package"
ErrUnknownService == "unknown service"
ErrInvalidServiceName == "invalid service name"
ErrInvalidMessageName == "invalid message name"
ErrInvalidRPCName == "invalid RPC name"
\* the run-time panic of a nil pointer dereference
Panic == "panic: nil pointer dereference"

(* ---------------------------- catalog ---------------------------------- *)

\* entity.RPC, entity.Message, entity.Service: interface values; ref is the
\* identity of the object behind the interface, Name its Name(), RPCs its RPCs()
NewRPC(n, r) == [Name |-> n, ref |-> r]
NewMessage(n, r) == [Name |-> n, ref |-> r]
NewService(n, r, rpcs) == [Name |-> n, ref |-> r, RPCs |-> rpcs]
\* the nil interface value returned next to an error
NilEntity == [Name |-> << >>, ref |-> 0]

\* *entity.Package
NewPackage(n, svcs, msgs) == [Name |-> n, Services |-> svcs, Messages |-> msgs]

\* package "a": two services named "aa", one named "a.a"; RPCs and messages
\* with repeated names
SvcsA ==
    << NewService(AA, 1, << NewRPC(A, 1), NewRPC(A, 2), NewRPC(AA, 3) >>),
       NewService(AA, 2, << NewRPC(AA, 4) >>),
       NewService(AdotA, 3, << NewRPC(A, 5) >>) >>

MsgsA == << NewMessage(A, 1), NewMessage(A, 2), NewMessage(AA, 3) >>

\* package "aa"
SvcsAA == << NewService(A, 4, << NewRPC(AA, 6) >>), NewService(AA, 5, << >>) >>

MsgsAA == << NewMessage(AA, 4) >>

\* the package of the proto files that declare no package: its name is ""
SvcsNoName == << NewService(DotA, 6, << NewRPC(A, 7) >>), NewService(A, 7, << >>) >>

\* package "a" whose only service reports the bare name "a"
SvcsBare == << NewService(A, 8, << NewRPC(A, 8) >>) >>

\* the package lists New is called with (package names are unique in each)
Catalogs ==
    { << >>,
      << NewPackage(A, SvcsA, MsgsA), NewPackage(AA, SvcsAA, MsgsAA),
         NewPackage(Empty, SvcsNoName, << >>) >>,
      << NewPackage(A, SvcsBare, << >>) >> }

\* the (svcs, msgs) lists NewFromServices is called with
FlatCatalogs ==
    { [svcs |-> SvcsA, msgs |-> MsgsA], [svcs |-> << >>, msgs |-> << >>] }

(* ---------------------------- headers ---------------------------------- *)

HeaderKeys == {A}
HeaderVals == {A, AA}
NewHeader(k, v) == [Key |-> k, Val |-> v]

\* the defaultHeaders lists the constructors are called with
DefaultHeaderLists == { << >>, << NewHeader(A, A), NewHeader(A, AA) >> }

\* sync.Map.Store and sync.Map.Delete, and the assignment to a Go map
MapStore(m, k, v) == [x \in (DOMAIN m) \cup {k} |-> IF x = k THEN v ELSE m[x]]
MapDelete(m, k) == [x \in (DOMAIN m) \ {k} |-> m[x]]

(* ---------------------------- Env -------------------------------------- *)

\* the Env value the operations below read and return
Env == [pkgs |-> pkgs, state |-> state, option |-> option, cache |-> cache]

\* the for-range scans of Service, Message, RPC, UsePackage and UseService:
\* the index of the first element of list whose Name equals name, 0 if none
RECURSIVE FirstNamedFrom(_, _, _)
FirstNamedFrom(list, name, i) ==
    IF i > Len(list) THEN 0
    ELSE IF name = list[i].Name THEN i
    ELSE FirstNamedFrom(list, name, i + 1)

\* a scan that keeps going after a match and so returns the last match
RECURSIVE LastNamedFrom(_, _, _)
LastNamedFrom(list, name, i) ==
    IF i < 1 THEN 0
    ELSE IF name = list[i].Name THEN i
    ELSE LastNamedFrom(list, name, i - 1)

FirstNamedLast(list, name) == LastNamedFrom(list, name, Len(list))

FirstNamed(list, name) == FirstNamedFrom(list, name, 1)

\* AddHeader that keeps the header already stored under the key
AddHeaderKeepsOld(e, h) ==
    [e EXCEPT !.option.headers =
        IF h.Key \in DOMAIN @ THEN @ ELSE MapStore(@, h.Key, h)]

AddHeader(e, h) == [e EXCEPT !.option.headers = MapStore(@, h.Key, h)]

\* RemoveHeader that deletes from the package cache instead of the headers
RemoveHeaderFromCache(e, key) == [e EXCEPT !.cache.pkg = MapDelete(@, key)]

RemoveHeader(e, key) == [e EXCEPT !.option.headers = MapDelete(@, key)]

\* the loop of New over defaultHeaders
RECURSIVE AddHeaders(_, _)
AddHeaders(e, hs) ==
    IF hs = << >> THEN e
    ELSE AddHeaders(AddHeader(e, NewHeader(Head(hs).Key, Head(hs).Val)), Tail(hs))

New(ps, defaultHeaders) ==
    AddHeaders([pkgs |-> ps,
                state |-> [currentPackage |-> Empty, currentService |-> Empty],
                option |-> [headers |-> << >>],
                cache |-> [pkgList |-> << >>, pkg |-> << >>]],
               defaultHeaders)

HasCurrentPackage(e) == e.state.currentPackage # Empty

HasCurrentService(e) == e.state.currentService # Empty

Packages(e) == e.pkgs

\* UsePackage that forgets to memoize the package it selects
UsePackageNoCache(e, name) ==
    LET i == FirstNamed(Packages(e), name)
    IN  IF i # 0
        THEN [env |-> [e EXCEPT !.state.currentPackage = name], err |-> NoErr]
        ELSE [env |-> e, err |-> ErrUnknownPackage]

\* UsePackage that resets the service selection when it switches package
UsePackageClearsService(e, name) ==
    LET i == FirstNamed(Packages(e), name)
    IN  IF i # 0
        THEN [env |-> [e EXCEPT !.state.currentPackage = name,
                                !.state.currentService = Empty,
                                !.cache.pkg = MapStore(@, name, Packages(e)[i])],
              err |-> NoErr]
        ELSE [env |-> e, err |-> ErrUnknownPackage]

\* UsePackage that assigns currentPackage before it has found the package
UsePackageEager(e, name) ==
    LET i == FirstNamed(Packages(e), name)
    IN  IF i # 0
        THEN [env |-> [e EXCEPT !.state.currentPackage = name,
                                !.cache.pkg = MapStore(@, name, Packages(e)[i])],
              err |-> NoErr]
        ELSE [env |-> [e EXCEPT !.state.currentPackage = name],
              err |-> ErrUnknownPackage]

UsePackage(e, name) ==
    LET i == FirstNamed(Packages(e), name)
    IN  IF i # 0
        THEN [env |-> [e EXCEPT !.state.currentPackage = name,
                                !.cache.pkg = MapStore(@, name, Packages(e)[i])],
              err |-> NoErr]
        ELSE [env |-> e, err |-> ErrUnknownPackage]

\* NewFromServices that forgets to select the package it synthesizes
NewFromServicesNoSelect(svcs, msgs, defaultHeaders) ==
    [env |-> New(<< NewPackage(Default, svcs, msgs) >>, defaultHeaders),
     err |-> NoErr]

\* NewFromServices; err is Panic when the constructor panics
NewFromServices(svcs, msgs, defaultHeaders) ==
    LET env == New(<< NewPackage(Default, svcs, msgs) >>, defaultHeaders)
        r == UsePackage(env, env.pkgs[1].Name)
    IN  [env |-> r.env, err |-> IF r.err # NoErr THEN Panic ELSE NoErr]

Services(e) ==
    IF ~HasCurrentPackage(e) THEN [val |-> << >>, err |-> ErrPackageUnselected]
    ELSE IF e.state.currentPackage \notin DOMAIN e.cache.pkg
         THEN [val |-> << >>, err |-> Panic]
         ELSE [val |-> e.cache.pkg[e.state.currentPackage].Services, err |-> NoErr]

Messages(e) ==
    IF ~HasCurrentPackage(e) THEN [val |-> << >>, err |-> ErrPackageUnselected]
    ELSE IF e.state.currentPackage \notin DOMAIN e.cache.pkg
         THEN [val |-> << >>, err |-> Panic]
         ELSE [val |-> e.cache.pkg[e.state.currentPackage].Messages, err |-> NoErr]

Service(e, name) ==
    LET svc == Services(e)
        i == FirstNamed(svc.val, name)
    IN  IF svc.err # NoErr THEN [val |-> NilEntity, err |-> svc.err]
        ELSE IF i # 0 THEN [val |-> svc.val[i], err |-> NoErr]
        ELSE [val |-> NilEntity, err |-> ErrInvalidServiceName]

Message(e, name) ==
    LET msg == Messages(e)
        i == FirstNamed(msg.val, name)
    IN  IF msg.err # NoErr THEN [val |-> NilEntity, err |-> msg.err]
        ELSE IF i # 0 THEN [val |-> msg.val[i], err |-> NoErr]
        ELSE [val |-> NilEntity, err |-> ErrInvalidMessageName]

\* RPCs without the guard on the service selection
RPCsNoGuard(e) ==
    LET svc == Service(e, e.state.currentService)
    IN  IF svc.err # NoErr THEN [val |-> << >>, err |-> svc.err]
        ELSE [val |-> svc.val.RPCs, err |-> NoErr]

RPCs(e) ==
    IF ~HasCurrentService(e) THEN [val |-> << >>, err |-> ErrServiceUnselected]
    ELSE LET svc == Service(e, e.state.currentService)
         IN  IF svc.err # NoErr THEN [val |-> << >>, err |-> svc.err]
             ELSE [val |-> svc.val.RPCs, err |-> NoErr]

RPC(e, name) ==
    LET rpcs == RPCs(e)
        i == FirstNamed(rpcs.val, name)
    IN  IF rpcs.err # NoErr THEN [val |-> NilEntity, err |-> rpcs.err]
        ELSE IF i # 0 THEN [val |-> rpcs.val[i], err |-> NoErr]
        ELSE [val |-> NilEntity, err |-> ErrInvalidRPCName]

UseService(e, name) ==
    LET unselected == e.state.currentPackage = Empty
        s == SplitN2(name, ".")
        up == IF unselected /\ Len(s) = 2
              THEN UsePackage(e, s[1])
              ELSE [env |-> e, err |-> NoErr]
        \* the package names the UsePackage call of line 217 selected
        used == IF unselected /\ Len(s) = 2 /\ up.err = NoErr THEN {s[1]} ELSE {}
        services == Services(up.env)
        i == FirstNamed(services.val, name)
    IN  IF unselected /\ Len(s) # 2
        THEN [env |-> e, err |-> ErrPackageUnselected, used |-> {}]
        ELSE IF up.err # NoErr THEN [env |-> up.env, err |-> up.err, used |-> used]
        ELSE IF services.err # NoErr
             THEN [env |-> up.env, err |-> services.err, used |-> used]
        ELSE IF i # 0
             THEN [env |-> [up.env EXCEPT !.state.currentService = name],
                   err |-> NoErr, used |-> used]
             ELSE [env |-> up.env, err |-> ErrUnknownService, used |-> used]

\* DSN that appends the service without the separating dot
DSNNoDot(e) ==
    IF e.state.currentPackage = Empty THEN Empty
    ELSE IF e.state.currentService # Empty
         THEN e.state.currentPackage \o e.state.currentService
         ELSE e.state.currentPackage

DSN(e) ==
    IF e.state.currentPackage = Empty THEN Empty
    ELSE IF e.state.currentService # Empty
         THEN e.state.currentPackage \o Dot \o e.state.currentService
         ELSE e.state.currentPackage

\* sort.Slice by Key: insertion of h into a list already sorted
RECURSIVE InsertByKey(_, _)
InsertByKey(h, sorted) ==
    IF sorted = << >> THEN << h >>
    ELSE IF StrLess(h.Key, Head(sorted).Key) THEN << h >> \o sorted
    ELSE << Head(sorted) >> \o InsertByKey(h, Tail(sorted))

\* Headers that returns the entries in the order Range visited them
SortByKeyForgotten(hs) == hs

RECURSIVE SortByKey(_)
SortByKey(hs) ==
    IF hs = << >> THEN << >> ELSE InsertByKey(Head(hs), SortByKey(Tail(hs)))

\* the orders in which sync.Map.Range may visit the keys of m
RangeOrders(m) ==
    { o \in [1..Cardinality(DOMAIN m) -> DOMAIN m] :
        \A i, j \in DOMAIN o : i # j => o[i] # o[j] }

\* the callback of Range that appends the stored pointer itself
ShareHeader(h) == h

\* the callback of Range: the Header allocated for the stored Header h
CopyHeader(h) == NewHeader(h.Key, h.Val)

\* Headers, for one visiting order of Range, when no other goroutine runs
Headers(e, order) ==
    SortByKey([i \in DOMAIN order |-> CopyHeader(e.option.headers[order[i]])])

(* ---------------------------- state machine ---------------------------- *)

\* the results of the two constructors
Constructions ==
    { [op |-> "New", arg |-> [pkgs |-> ps, defaultHeaders |-> dh],
       env |-> New(ps, dh), err |-> NoErr] :
        ps \in Catalogs, dh \in DefaultHeaderLists }
    \cup
    { [op |-> "NewFromServices",
       arg |-> [svcs |-> f.svcs, msgs |-> f.msgs, defaultHeaders |-> dh],
       env |-> NewFromServices(f.svcs, f.msgs, dh).env,
       err |-> NewFromServices(f.svcs, f.msgs, dh).err] :
        f \in FlatCatalogs, dh \in DefaultHeaderLists }

\* the selection state, header store and cache as a call found them
Pre == [state |-> state, option |-> option, cache |-> cache]

\* ret records the last call: the operation, its name argument, the cause of
\* the error it returned, the value it returned, and the state it started in;
\* selected is the history of the package names whose selection (a run of
\* UsePackage) has succeeded so far, sel the names this call adds to it
ReturnedSelecting(op, name, err, val, sel) ==
    [op |-> op, name |-> name, err |-> err, val |-> val, pre |-> Pre,
     selected |-> ret.selected \cup sel]

Returned(op, name, err, val) == ReturnedSelecting(op, name, err, val, {})

\* the call leaves e as the Env
Becomes(e) ==
    /\ pkgs' = e.pkgs
    /\ state' = e.state
    /\ option' = e.option
    /\ cache' = e.cache
    /\ UNCHANGED <<callers, reference>>

Init ==
    \E c \in Constructions :
        /\ pkgs = c.env.pkgs
        /\ state = c.env.state
        /\ option = c.env.option
        /\ cache = c.env.cache
        /\ ret = [op |-> c.op, name |-> Empty, err |-> c.err, val |-> c.arg,
                  pre |-> [state |-> c.env.state, option |-> c.env.option,
                           cache |-> c.env.cache],
                  selected |-> IF c.op = "NewFromServices" /\ c.err = NoErr
                               THEN {c.env.pkgs[1].Name} ELSE {}]
        /\ callers = << >>
        /\ reference = << >>

CallPackages ==
    /\ ret' = Returned("Packages", Empty, NoErr, Packages(Env))
    /\ Becomes(Env)

CallServices ==
    /\ ret' = Returned("Services", Empty, Services(Env).err, Services(Env).val)
    /\ Becomes(Env)

CallMessages ==
    /\ ret' = Returned("Messages", Empty, Messages(Env).err, Messages(Env).val)
    /\ Becomes(Env)

CallRPCs ==
    /\ ret' = Returned("RPCs", Empty, RPCs(Env).err, RPCs(Env).val)
    /\ Becomes(Env)

CallService ==
    \E name \in Names :
        /\ ret' = Returned("Service", name, Service(Env, name).err, Service(Env, name).val)
        /\ Becomes(Env)

CallMessage ==
    \E name \in Names :
        /\ ret' = Returned("Message", name, Message(Env, name).err, Message(Env, name).val)
        /\ Becomes(Env)

CallRPC ==
    \E name \in Names :
        /\ ret' = Returned("RPC", name, RPC(Env, name).err, RPC(Env, name).val)
        /\ Becomes(Env)

CallHeaders ==
    \E order \in RangeOrders(option.headers) :
        /\ ret' = Returned("Headers", Empty, NoErr, Headers(Env, order))
        /\ Becomes(Env)

CallAddHeader ==
    \E k \in HeaderKeys, v \in HeaderVals :
        /\ ret' = Returned("AddHeader", k, NoErr, << NewHeader(k, v) >>)
        /\ Becomes(AddHeader(Env, NewHeader(k, v)))

CallRemoveHeader ==
    \E k \in HeaderKeys :
        /\ ret' = Returned("RemoveHeader", k, NoErr, << >>)
        /\ Becomes(RemoveHeader(Env, k))

CallUsePackage ==
    \E name \in Names :
        /\ ret' = ReturnedSelecting("UsePackage", name, UsePackage(Env, name).err, << >>,
                                    IF UsePackage(Env, name).err = NoErr
                                    THEN {name} ELSE {})
        /\ Becomes(UsePackage(Env, name).env)

CallUseService ==
    \E name \in Names :
        /\ ret' = ReturnedSelecting("UseService", name, UseService(Env, name).err, << >>,
                                    UseService(Env, name).used)
        /\ Becomes(UseService(Env, name).env)

CallDSN ==
    /\ ret' = Returned("DSN", Empty, NoErr, DSN(Env))
    /\ Becomes(Env)

Next ==
    \/ CallPackages
    \/ CallServices
    \/ CallMessages
    \/ CallRPCs
    \/ CallService
    \/ CallMessage
    \/ CallRPC
    \/ CallHeaders
    \/ CallAddHeader
    \/ CallRemoveHeader
    \/ CallUsePackage
    \/ CallUseService
    \/ CallDSN

Spec == Init /\ [][Next]_vars

(* ---------------------------- concurrent header store ------------------ *)
(* Several goroutines call AddHeader, RemoveHeader and Headers on one Env.  *)
(* Store and Delete of sync.Map are atomic.  Range is not: it visits every  *)
(* key at most once, each at its own instant of the call, and for a key     *)
(* stored or deleted meanwhile it reflects the mapping of that instant.     *)
(* A Header passed by a caller carries ref, the identity of the object, so  *)
(* that a write through one pointer shows through every other pointer to    *)
(* the same object; a Header made by NewHeader is a new, unshared object.   *)

Callers == 1..NumCallers

\* the keys the concurrent callers use
ConcKeys == {A, AA}

\* the (Key, Val) pairs of the headers a store m holds
Contents(m) == {<< m[k].Key, m[k].Val >> : k \in DOMAIN m}

\* the reference key -> value map: AddHeader overwrites, RemoveHeader deletes
RefAdd(m, k, v) == [x \in (DOMAIN m) \cup {k} |-> IF x = k THEN v ELSE m[x]]
RefRemove(m, k) == [x \in (DOMAIN m) \ {k} |-> m[x]]

\* the number of calls the goroutines 1..c have begun
RECURSIVE CallsOf(_)
CallsOf(c) == IF c = 0 THEN 0 ELSE callers[c].n + CallsOf(c - 1)

CallsMade == CallsOf(NumCallers)

\* a goroutine between calls, before its first call
IdleCaller ==
    [pc |-> "idle", n |-> 0, last |-> "none", todo |-> {}, acc |-> << >>,
     out |-> << >>, mutated |-> FALSE, seen |-> {}, log |-> << >>]

\* a Headers call in flight notes the contents the store takes meanwhile
Observe(cr, opt) ==
    IF cr.pc = "range" THEN [cr EXCEPT !.seen = @ \cup {Contents(opt.headers)}]
    ELSE cr

InitHeaders ==
    \E dh \in DefaultHeaderLists :
        /\ pkgs = New(<< >>, dh).pkgs
        /\ state = New(<< >>, dh).state
        /\ option = New(<< >>, dh).option
        /\ cache = New(<< >>, dh).cache
        /\ ret = [op |-> "New", name |-> Empty, err |-> NoErr,
                  val |-> [pkgs |-> << >>, defaultHeaders |-> dh],
                  pre |-> [state |-> New(<< >>, dh).state,
                           option |-> New(<< >>, dh).option,
                           cache |-> New(<< >>, dh).cache],
                  selected |-> {}]
        /\ callers = [c \in Callers |-> IdleCaller]
        /\ reference = [k \in {dh[i].Key : i \in DOMAIN dh} |->
                          dh[CHOOSE i \in DOMAIN dh :
                                /\ dh[i].Key = k
                                /\ \A j \in DOMAIN dh : dh[j].Key = k => j <= i].Val]

\* the *entity.Header the callers pass for key k and value v: callers may
\* pass the same object again, so there is one object per content
CallerHeader(k, v) == [Key |-> k, Val |-> v, ref |-> << k, v >>]

\* goroutine c calls AddHeader
GoAddHeader(c) ==
    \E k \in ConcKeys, v \in HeaderVals :
        LET h == CallerHeader(k, v)
        IN  /\ callers[c].pc = "idle"
            /\ CallsMade < MaxCalls
            /\ option' = AddHeader(Env, h).option
            /\ reference' = RefAdd(reference, k, v)
            /\ callers' = [d \in Callers |->
                  IF d = c
                  THEN [callers[c] EXCEPT !.n = @ + 1, !.last = "AddHeader",
                            !.out = << >>, !.seen = {}, !.mutated = FALSE,
                            !.log = Append(@, [op |-> "AddHeader", key |-> k, val |-> v])]
                  ELSE Observe(callers[d], option')]
            /\ UNCHANGED <<pkgs, state, cache, ret>>

\* goroutine c calls RemoveHeader
GoRemoveHeader(c) ==
    \E k \in ConcKeys :
        /\ callers[c].pc = "idle"
        /\ CallsMade < MaxCalls
        /\ option' = RemoveHeader(Env, k).option
        /\ reference' = RefRemove(reference, k)
        /\ callers' = [d \in Callers |->
              IF d = c
              THEN [callers[c] EXCEPT !.n = @ + 1, !.last = "RemoveHeader",
                        !.out = << >>, !.seen = {}, !.mutated = FALSE,
                        !.log = Append(@, [op |-> "RemoveHeader", key |-> k, val |-> Empty])]
              ELSE Observe(callers[d], option')]
        /\ UNCHANGED <<pkgs, state, cache, ret>>

\* goroutine c enters Headers: Range has every key still to visit
GoHeaders(c) ==
    /\ callers[c].pc = "idle"
    /\ CallsMade < MaxCalls
    /\ callers' = [callers EXCEPT ![c] =
          [@ EXCEPT !.pc = "range", !.n = @ + 1, !.last = "Headers",
                    !.todo = ConcKeys \cup HeaderKeys, !.acc = << >>,
                    !.out = << >>, !.mutated = FALSE,
                    !.seen = {Contents(option.headers)}]]
    /\ UNCHANGED <<pkgs, state, option, cache, ret, reference>>

\* Range of goroutine c comes to key k and calls the callback if k is stored
GoRangeVisit(c) ==
    \E k \in callers[c].todo :
        /\ callers[c].pc = "range"
        /\ callers' = [callers EXCEPT ![c] =
              [@ EXCEPT !.todo = @ \ {k},
                        !.acc = IF k \in DOMAIN option.headers
                                THEN Append(@, CopyHeader(option.headers[k]))
                                ELSE @]]
        /\ UNCHANGED <<pkgs, state, option, cache, ret, reference>>

\* Range of goroutine c is through; Headers sorts and returns
GoHeadersReturn(c) ==
    /\ callers[c].pc = "range"
    /\ callers[c].todo = {}
    /\ callers' = [callers EXCEPT ![c] =
          [@ EXCEPT !.pc = "idle", !.out = SortByKey(callers[c].acc), !.acc = << >>]]
    /\ UNCHANGED <<pkgs, state, option, cache, ret, reference>>

\* x and y are pointers to the same Header object
SameObject(x, y) ==
    /\ "ref" \in DOMAIN x
    /\ "ref" \in DOMAIN y
    /\ x.ref = y.ref

\* the Header x after the object old has been overwritten with new
Written(x, old, new) == IF SameObject(x, old) THEN new ELSE x

\* goroutine c writes to the list Headers returned to it: it assigns the Key
\* or the Val of an entry, or drops the first entry of the list
GoMutate(c) ==
    /\ callers[c].pc = "idle"
    /\ callers[c].last \in {"Headers", "Mutate"}
    /\ callers[c].out # << >>
    /\ CallsMade < MaxCalls
    /\ \E i \in DOMAIN callers[c].out, how \in {"Key", "Val", "list"},
          v \in HeaderVals :
          LET old == callers[c].out[i]
              new == IF how = "Key" THEN [old EXCEPT !.Key = v]
                     ELSE IF how = "Val" THEN [old EXCEPT !.Val = v]
                     ELSE old
              WriteAll(list) == [j \in DOMAIN list |-> Written(list[j], old, new)]
          IN  /\ option' = [option EXCEPT !.headers =
                               [k \in DOMAIN @ |-> Written(@[k], old, new)]]
              /\ callers' = [d \in Callers |->
                    IF d = c
                    THEN [callers[c] EXCEPT
                            !.n = @ + 1, !.last = "Mutate", !.mutated = TRUE,
                            !.out = IF how = "list" THEN Tail(@)
                                    ELSE [WriteAll(@) EXCEPT ![i] = new]]
                    ELSE Observe([callers[d] EXCEPT !.out = WriteAll(@),
                                                    !.acc = WriteAll(@)],
                                 option')]
    /\ UNCHANGED <<pkgs, state, cache, ret, reference>>

NextHeaders ==
    \E c \in Callers :
        \/ GoAddHeader(c)
        \/ GoRemoveHeader(c)
        \/ GoHeaders(c)
        \/ GoRangeVisit(c)
        \/ GoHeadersReturn(c)
        \/ GoMutate(c)

SpecHeaders == InitHeaders /\ [][NextHeaders]_vars

(* ---------------------------- properties -------------------------------- *)

\* name contains no '.'
NoDot(name) == \A i \in DOMAIN name : name[i] # "."

\* the text of name before its first '.'
BeforeFirstDot(name) ==
    LET k == CHOOSE i \in DOMAIN name :
                 name[i] = "." /\ \A j \in 1..(i - 1) : name[j] # "."
    IN  [j \in 1..(k - 1) |-> name[j]]

\* the positions of list whose element is named name
Matches(list, name) == {i \in DOMAIN list : list[i].Name = name}

\* the smallest position of a non-empty set of positions
Least(S) == CHOOSE i \in S : \A j \in S : i <= j

\* the catalog knows a package named name
InCatalog(name) == \E i \in DOMAIN pkgs : pkgs[i].Name = name

\* the catalog package named name
CatalogPackage(name) == pkgs[CHOOSE i \in DOMAIN pkgs : pkgs[i].Name = name]

\* C1: UsePackage(name) with a name that equals no package name of the
\* catalog fails with ErrUnknownPackage and leaves currentPackage,
\* currentService and the cache as they were before the call.
C1_UnknownPackageFails ==
    (ret.op = "UsePackage" /\ ~InCatalog(ret.name))
        => /\ ret.err = ErrUnknownPackage
           /\ state = ret.pre.state
           /\ cache = ret.pre.cache

\* a failed UsePackage in a state with a package and a service selected
C1_Witness ==
    /\ ret.op = "UsePackage"
    /\ ~InCatalog(ret.name)
    /\ ret.name # Empty
    /\ ret.err = ErrUnknownPackage
    /\ ret.pre.state.currentPackage # Empty
    /\ ret.pre.state.currentService # Empty

\* C2: in every reachable state currentService non-empty implies
\* currentPackage non-empty.
C2_ServiceImpliesPackage ==
    state.currentService # Empty => state.currentPackage # Empty

\* C3 as stated: whenever UsePackage(p) succeeds, also with a service already
\* selected, the DSN read right afterwards is exactly p.
C3_DSNIsPackage ==
    (ret.op = "UsePackage" /\ ret.err = NoErr) => DSN(Env) = ret.name

\* C3 amended: whenever UsePackage(p) succeeds, the DSN read right afterwards
\* is p when no service was selected before the call (or p is the empty
\* name, then it is ""), and p, a dot and the service selected before the
\* call otherwise.
C3_DSNAfterUsePackage ==
    (ret.op = "UsePackage" /\ ret.err = NoErr)
        => DSN(Env) = IF ret.name = Empty THEN Empty
                      ELSE IF ret.pre.state.currentService = Empty THEN ret.name
                      ELSE ret.name \o << "." >> \o ret.pre.state.currentService

\* a successful switch to another package while a service is selected
C3_Witness ==
    /\ ret.op = "UsePackage"
    /\ ret.err = NoErr
    /\ ret.name # Empty
    /\ ret.name # ret.pre.state.currentPackage
    /\ ret.pre.state.currentPackage # Empty
    /\ ret.pre.state.currentService # Empty

\* C4: after a successful UseService the DSN is "p.s": the name passed when
\* it is "p.s" and p was selected before, or no package was selected before;
\* p, a dot and the name passed when the bare "s" is passed with p selected.
C4_DSNIsPackageDotService ==
    (ret.op = "UseService" /\ ret.err = NoErr)
        => LET p == ret.pre.state.currentPackage
               qualified == /\ Len(ret.name) > Len(p)
                            /\ SubSeq(ret.name, 1, Len(p) + 1) = p \o << "." >>
           IN  IF p = Empty \/ qualified
               THEN DSN(Env) = ret.name
               ELSE DSN(Env) = p \o << "." >> \o ret.name

\* C5: UseService(name) with no package selected and a name without '.'
\* fails with ErrPackageUnselected and leaves currentPackage, currentService
\* and the cache unchanged.
C5_BareNameNeedsPackage ==
    (ret.op = "UseService" /\ ret.pre.state.currentPackage = Empty /\ NoDot(ret.name))
        => /\ ret.err = ErrPackageUnselected
           /\ state = ret.pre.state
           /\ cache = ret.pre.cache

\* UseService with the bare name of a package of the catalog, none selected
C5_Witness ==
    /\ ret.op = "UseService"
    /\ ret.pre.state.currentPackage = Empty
    /\ ret.name # Empty
    /\ NoDot(ret.name)
    /\ InCatalog(ret.name)
    /\ ret.err = ErrPackageUnselected

\* C6: UseService("pkg.svc") with no package selected succeeds exactly when
\* the catalog has a package named "pkg" (the text before the first '.')
\* that owns a service named "pkg.svc"; it then selects "pkg" and "pkg.svc";
\* when "pkg" is in the catalog without such a service the call fails with
\* ErrUnknownService.
C6_QualifiedNameSelectsBoth ==
    (ret.op = "UseService" /\ ret.pre.state.currentPackage = Empty /\ ~NoDot(ret.name))
        => LET pkg == BeforeFirstDot(ret.name)
               owns == /\ InCatalog(pkg)
                       /\ Matches(CatalogPackage(pkg).Services, ret.name) # {}
           IN  /\ (ret.err = NoErr) <=> owns
               /\ owns => /\ state.currentPackage = pkg
                          /\ state.currentService = ret.name
               /\ (InCatalog(pkg) /\ ~owns) => ret.err = ErrUnknownService

\* C7: UsePackage never modifies currentService, whether it succeeds or
\* fails.
C7_UsePackageKeepsService ==
    ret.op = "UsePackage" => state.currentService = ret.pre.state.currentService

\* after a successful UsePackage the selected service names no service of
\* the current package
C7_Witness ==
    /\ ret.op = "UsePackage"
    /\ ret.err = NoErr
    /\ state.currentPackage # Empty
    /\ state.currentPackage # ret.pre.state.currentPackage
    /\ state.currentService # Empty
    /\ Matches(CatalogPackage(state.currentPackage).Services, state.currentService) = {}

\* C8 as stated: RPCs() fails with ErrServiceUnselected if currentService is
\* empty, and otherwise succeeds and returns the RPC list of the selected
\* service.
C8_RPCsSucceedsWhenSelected ==
    ret.op = "RPCs"
        => IF state.currentService = Empty
           THEN ret.err = ErrServiceUnselected
           ELSE /\ ret.err = NoErr
                /\ \E i \in DOMAIN pkgs : \E j \in DOMAIN pkgs[i].Services :
                       /\ pkgs[i].Services[j].Name = state.currentService
                       /\ ret.val = pkgs[i].Services[j].RPCs

\* C8 amended: RPCs() fails with ErrServiceUnselected if currentService is
\* empty; otherwise it returns what Service(currentService) finds in the
\* current package: ErrPackageUnselected if currentPackage is empty,
\* ErrInvalidServiceName if the current package has no service of that name
\* (the service was selected under another package), and else the RPC list
\* of the first service of the current package with that name.
C8_RPCsOfCurrentService ==
    ret.op = "RPCs"
        => IF state.currentService = Empty THEN ret.err = ErrServiceUnselected
           ELSE IF state.currentPackage = Empty THEN ret.err = ErrPackageUnselected
           ELSE LET svcs == CatalogPackage(state.currentPackage).Services
                    M == Matches(svcs, state.currentService)
                IN  IF M = {} THEN ret.err = ErrInvalidServiceName
                    ELSE /\ ret.err = NoErr
                         /\ ret.val = svcs[Least(M)].RPCs

\* RPCs() called when the selected service is not one of the current package
C8_Witness ==
    /\ ret.op = "RPCs"
    /\ state.currentService # Empty
    /\ state.currentPackage # Empty
    /\ Matches(CatalogPackage(state.currentPackage).Services, state.currentService) = {}
    /\ ret.err = ErrInvalidServiceName

\* C9: the cache holds an entry for every non-empty currentPackage, and
\* Services() and Messages() fail with ErrPackageUnselected exactly when
\* currentPackage is empty and otherwise return the service list,
\* respectively message list, of the catalog package named currentPackage.
C9_ServicesAndMessages ==
    /\ state.currentPackage # Empty => state.currentPackage \in DOMAIN cache.pkg
    /\ ret.op \in {"Services", "Messages"}
         => /\ (ret.err = ErrPackageUnselected) <=> (state.currentPackage = Empty)
            /\ state.currentPackage # Empty
                 => /\ ret.err = NoErr
                    /\ InCatalog(state.currentPackage)
                    /\ ret.val = IF ret.op = "Services"
                                 THEN CatalogPackage(state.currentPackage).Services
                                 ELSE CatalogPackage(state.currentPackage).Messages

\* Messages() answered from a cache that holds more than one package
C9_Witness ==
    /\ ret.op = "Messages"
    /\ ret.err = NoErr
    /\ ret.val # << >>
    /\ Cardinality(DOMAIN cache.pkg) >= 2

\* C10: when their scope is available, Service(name), Message(name) and
\* RPC(name) return the first element in list order of the scope whose name
\* is name, also when several elements carry it, and fail with
\* ErrInvalidServiceName, ErrInvalidMessageName, ErrInvalidRPCName when no
\* element matches.
C10_FirstMatchWins ==
    LET FirstOf(list, notFound) ==
            IF Matches(list, ret.name) = {} THEN ret.err = notFound
            ELSE /\ ret.err = NoErr
                 /\ ret.val = list[Least(Matches(list, ret.name))]
    IN  /\ (ret.op = "Service" /\ Services(Env).err = NoErr)
            => FirstOf(Services(Env).val, ErrInvalidServiceName)
        /\ (ret.op = "Message" /\ Messages(Env).err = NoErr)
            => FirstOf(Messages(Env).val, ErrInvalidMessageName)
        /\ (ret.op = "RPC" /\ RPCs(Env).err = NoErr)
            => FirstOf(RPCs(Env).val, ErrInvalidRPCName)

\* RPC(name) answered from an RPC list in which two RPCs are named name
C10_Witness ==
    /\ ret.op = "RPC"
    /\ ret.err = NoErr
    /\ RPCs(Env).err = NoErr
    /\ Cardinality(Matches(RPCs(Env).val, ret.name)) >= 2

\* C15: NewFromServices never panics, and the Env it returns has
\* currentPackage = "default", no service selected, a cache holding exactly
\* the key "default", DSN() = "default", and Services() and Messages()
\* returning the svcs and msgs it was given.
C15_NewFromServicesSelectsDefault ==
    ret.op = "NewFromServices"
        => /\ ret.err = NoErr
           /\ state.currentPackage = << "d", "e", "f", "a", "u", "l", "t" >>
           /\ state.currentService = << >>
           /\ DOMAIN cache.pkg = {<< "d", "e", "f", "a", "u", "l", "t" >>}
           /\ DSN(Env) = << "d", "e", "f", "a", "u", "l", "t" >>
           /\ Services(Env) = [val |-> ret.val.svcs, err |-> NoErr]
           /\ Messages(Env) = [val |-> ret.val.msgs, err |-> NoErr]

\* an Env built by NewFromServices from non-empty lists
C15_Witness ==
    /\ ret.op = "NewFromServices"
    /\ ret.val.svcs # << >>
    /\ ret.val.msgs # << >>
    /\ ret.val.defaultHeaders # << >>

\* C16: DSN() returns "" when currentPackage is empty, currentPackage when
\* only a package is selected, and currentPackage, a dot and currentService
\* when a service is selected too; the call changes no state.
C16_DSNOfSelection ==
    ret.op = "DSN"
        => /\ ret.val = IF state.currentPackage = << >> THEN << >>
                        ELSE IF state.currentService = << >>
                             THEN state.currentPackage
                             ELSE state.currentPackage \o << "." >>
                                      \o state.currentService
           /\ state = ret.pre.state
           /\ cache = ret.pre.cache
           /\ option = ret.pre.option

\* DSN() read with a package and a service selected
C16_Witness ==
    /\ ret.op = "DSN"
    /\ state.currentPackage # Empty
    /\ state.currentService # Empty
    /\ Len(ret.val) = Len(state.currentPackage) + 1 + Len(state.currentService)

\* C17: the key set of the cache is exactly the set of package names whose
\* selection has succeeded so far (by UsePackage, by the package step of
\* UseService, or by NewFromServices); every key names a catalog package and
\* maps to it; no operation removes a key.
C17_CacheIsSelectedPackages ==
    /\ DOMAIN cache.pkg = ret.selected
    /\ \A k \in DOMAIN cache.pkg : InCatalog(k) /\ cache.pkg[k] = CatalogPackage(k)
    /\ DOMAIN ret.pre.cache.pkg \subseteq DOMAIN cache.pkg

\* the package step of a UseService adds a second key to the cache
C17_Witness ==
    /\ ret.op = "UseService"
    /\ DOMAIN cache.pkg # DOMAIN ret.pre.cache.pkg
    /\ Cardinality(DOMAIN cache.pkg) >= 2

\* C18: no operation makes a non-empty currentPackage empty again, none
\* makes a non-empty currentService empty again, and the selection only
\* changes in a UsePackage or a UseService.
C18_SelectionOnlyMovesForward ==
    /\ ret.pre.state.currentPackage # Empty => state.currentPackage # Empty
    /\ ret.pre.state.currentService # Empty => state.currentService # Empty
    /\ state # ret.pre.state => ret.op \in {"UsePackage", "UseService"}

\* C19: a failed UseService never changes currentService; started with a
\* package selected it changes nothing; started with none, its one partial
\* effect is that for "pkg.x" with "pkg" in the catalog it fails with
\* ErrUnknownService and leaves currentPackage = "pkg" and "pkg" cached.
C19_FailedUseService ==
    (ret.op = "UseService" /\ ret.err # NoErr)
        => /\ state.currentService = ret.pre.state.currentService
           /\ ret.pre.state.currentPackage # Empty
                => (state = ret.pre.state /\ cache = ret.pre.cache)
           /\ ret.pre.state.currentPackage = Empty
                => IF ~NoDot(ret.name) /\ InCatalog(BeforeFirstDot(ret.name))
                   THEN /\ ret.err = ErrUnknownService
                        /\ state.currentPackage = BeforeFirstDot(ret.name)
                        /\ DOMAIN cache.pkg =
                             DOMAIN ret.pre.cache.pkg \cup {BeforeFirstDot(ret.name)}
                   ELSE state = ret.pre.state /\ cache = ret.pre.cache

\* C20: AddHeader and RemoveHeader never change currentPackage,
\* currentService or the cache; UsePackage and UseService never change the
\* headers; the queries change no state at all.
C20_OperationsWriteOwnComponent ==
    /\ ret.op \in {"AddHeader", "RemoveHeader"}
         => (state = ret.pre.state /\ cache = ret.pre.cache)
    /\ ret.op \in {"UsePackage", "UseService"} => option = ret.pre.option
    /\ ret.op \in {"Packages", "Services", "Messages", "RPCs", "Service",
                   "Message", "RPC", "Headers", "DSN"}
         => (state = ret.pre.state /\ cache = ret.pre.cache
             /\ option = ret.pre.option)

\* a RemoveHeader that removes a header whose key is also the name of the
\* selected and cached package
C20_Witness ==
    /\ ret.op = "RemoveHeader"
    /\ option # ret.pre.option
    /\ state.currentService # Empty
    /\ ret.name \in DOMAIN cache.pkg

\* the (Key, Val) pairs of a list of headers
Entries(list) == {<< list[i].Key, list[i].Val >> : i \in DOMAIN list}

\* goroutine c holds the list its Headers call returned, as returned
HoldsResult(c) ==
    /\ callers[c].pc = "idle"
    /\ callers[c].last = "Headers"
    /\ ~callers[c].mutated

\* no AddHeader or RemoveHeader changed the store during the last Headers
\* call of goroutine c
Undisturbed(c) == Cardinality(callers[c].seen) = 1

\* list is in strictly ascending order of key
Ascending(list) ==
    \A i \in 1..(Len(list) - 1) : StrLess(list[i].Key, list[i + 1].Key)

\* C11: the store always equals the reference key -> value map (AddHeader
\* overwrites, RemoveHeader deletes, also an absent key, the default headers
\* of New included), and a Headers() call that no other call overlaps
\* returns exactly its contents, one entry per live key.
C11_HeadersIsReferenceMap ==
    /\ DOMAIN option.headers = DOMAIN reference
    /\ Contents(option.headers) = {<< k, reference[k] >> : k \in DOMAIN reference}
    /\ \A c \in DOMAIN callers :
          (HoldsResult(c) /\ Undisturbed(c))
              => /\ Entries(callers[c].out) \in callers[c].seen
                 /\ Len(callers[c].out) = Cardinality(Entries(callers[c].out))
                 /\ \A i, j \in DOMAIN callers[c].out :
                       callers[c].out[i].Key = callers[c].out[j].Key => i = j

\* an undisturbed Headers() returns two headers, one of them a default header
\* that New overwrote, after another goroutine called RemoveHeader
C11_Witness ==
    \E c, d \in DOMAIN callers :
        /\ c # d
        /\ HoldsResult(c)
        /\ Undisturbed(c)
        /\ Len(callers[c].out) >= 2
        /\ Len(ret.val.defaultHeaders) >= 2
        /\ callers[d].last = "RemoveHeader"

\* C12: every list Headers() returns is in strictly ascending order of key,
\* and writing to a returned entry or list changes neither the store nor
\* the list of any other caller, so no later Headers() result.
C12_SortedCopies ==
    /\ [](\A c \in DOMAIN callers : HoldsResult(c) => Ascending(callers[c].out))
    /\ [][\A c \in DOMAIN callers :
            (callers'[c].last = "Mutate" /\ callers'[c].n # callers[c].n)
                => /\ option' = option
                   /\ \A d \in DOMAIN callers \ {c} :
                         /\ callers'[d].out = callers[d].out
                         /\ callers'[d].acc = callers[d].acc]_vars

\* a goroutine has written to its list, which now differs from the store,
\* and another goroutine holds a list equal to the store
C12_Witness ==
    \E c, d \in DOMAIN callers :
        /\ c # d
        /\ callers[c].last = "Mutate"
        /\ callers[c].out # << >>
        /\ Entries(callers[c].out) # Contents(option.headers)
        /\ HoldsResult(d)
        /\ callers[d].out # << >>
        /\ Entries(callers[d].out) = Contents(option.headers)

\* the reference map after one logged AddHeader or RemoveHeader
RefApply(m, call) ==
    IF call.op = "AddHeader" THEN RefAdd(m, call.key, call.val)
    ELSE RefRemove(m, call.key)

RECURSIVE RefApplyAll(_, _)
RefApplyAll(m, calls) ==
    IF calls = << >> THEN m ELSE RefApplyAll(RefApply(m, Head(calls)), Tail(calls))

\* the sequential orders of the logged calls that keep each caller's order
RECURSIVE Interleavings(_)
Interleavings(logs) ==
    IF \A c \in DOMAIN logs : logs[c] = << >> THEN {<< >>}
    ELSE UNION {{<< Head(logs[c]) >> \o rest :
                    rest \in Interleavings([logs EXCEPT ![c] = Tail(@)])} :
                c \in {d \in DOMAIN logs : logs[d] # << >>}}

\* the AddHeader calls New makes for defaultHeaders
DefaultCalls(dh) ==
    [i \in DOMAIN dh |-> [op |-> "AddHeader", key |-> dh[i].Key, val |-> dh[i].Val]]

\* C13: under every interleaving, each Headers() result is sorted with no
\* key repeated and holds only pairs the store held at some instant of the
\* call (so pairs some AddHeader stored), and once all calls have returned
\* the store is the result of the AddHeader and RemoveHeader calls applied
\* in some sequential order that keeps each caller's own order.
C13_ConcurrentCallsAreSafe ==
    /\ \A c \in DOMAIN callers :
          HoldsResult(c)
              => /\ Ascending(callers[c].out)
                 /\ Entries(callers[c].out) \subseteq UNION callers[c].seen
    /\ (CallsMade = MaxCalls /\ \A c \in DOMAIN callers : callers[c].pc = "idle")
          => \E order \in Interleavings([c \in DOMAIN callers |-> callers[c].log]) :
                LET m == RefApplyAll(<< >>, DefaultCalls(ret.val.defaultHeaders) \o order)
                IN  /\ DOMAIN option.headers = DOMAIN m
                    /\ Contents(option.headers) = {<< k, m[k] >> : k \in DOMAIN m}

\* all calls have returned; two goroutines updated the same key while a
\* third call, a Headers(), was in flight
C13_Witness ==
    /\ CallsMade = MaxCalls
    /\ \A c \in DOMAIN callers : callers[c].pc = "idle"
    /\ \E c, d \in DOMAIN callers :
          /\ c # d
          /\ callers[c].log # << >>
          /\ callers[d].log # << >>
          /\ callers[c].log[1].key = callers[d].log[Len(callers[d].log)].key
          /\ HoldsResult(d)
          /\ ~Undisturbed(d)

\* C14: the entries a Headers() call returns are the full contents the store
\* had at one instant between the start and the return of the call.
C14_HeadersIsSnapshot ==
    \A c \in DOMAIN callers :
        HoldsResult(c) => Entries(callers[c].out) \in callers[c].seen

====
